---- MODULE Spec2Model ----
(***************************************************************************)
(* Model of the playbook Execution Engine of nexusguard                    *)
(* (backend/app/services/ansible_service.py, backend/app/api/ansible.py).  *)
(*                                                                         *)
(* The service runs on one asyncio event loop: a coroutine runs without    *)
(* interruption until it awaits something that suspends it.  Every action  *)
(* below is one such uninterrupted stretch of code.                        *)
(*                                                                         *)
(* PlaybookExecution objects are shared by reference between the dict      *)
(* self._executions and the background task that runs them, so the model   *)
(* keeps the objects in `heap` (one object per execution id) and the keys  *)
(* of the dict in `executions`.                                            *)
(*                                                                         *)
(* The second half models the Catalog and the Learner of the monitoring    *)
(* crew (agents/noc_monitoring_crew.py), which read and write the playbook *)
(* directory and the learned store.  Spec and FairSpec are the engine,     *)
(* ListSpec applies list_executions to execution tables, CatalogSpec is    *)
(* the search and the save of learned playbooks.                           *)
(***************************************************************************)
EXTENDS Integers, Sequences, FiniteSets, TLC

\* ------------------------------------------------------------------ bounds
\* Number of executions submitted in one behaviour.
MaxExecutions == 2
\* Largest reading of the wall clock; later readings return it again.
\* No step of the lifecycle reads a timestamp back, so the clock need not
\* advance for the lifecycle to be complete.
MaxClock == 0

\* Largest started_at of the execution tables that list_executions is
\* applied to.
MaxStamp == 1

\* Largest number of transactions and of servers of a metrics snapshot.
MaxTransactions == 2
MaxServers == 2
\* Largest number of tokens of a reply of the reasoning service.
MaxReply == 3
\* Largest number of tool calls of one kind in one behaviour of the agents.
MaxCalls == 2

\* ------------------------------------------------------------ value model
\* Optional[T]: None is the empty sequence, a value x is <<x>>.
None == <<>>
Some(x) == <<x>>

\* PlaybookExecutionStatus
PENDING == "pending"
RUNNING == "running"
SUCCESS == "success"
FAILED == "failed"
CANCELLED == "cancelled"
Terminal == {SUCCESS, FAILED, CANCELLED}

\* Execution ids a caller may name.  uuid4 is modelled as the next unused
\* number, so an id above the number of executions so far is an unknown id.
ExecutionIds == 1..MaxExecutions

\* Playbook ids a request may carry: one that is deployed and one that is not.
PlaybookIds == {"restart_application", "no_such_playbook"}
IncidentIds == {None}
Requests == [playbook_id : PlaybookIds, incident_id : IncidentIds]

\* A byte string captured from the process: either the UTF-8 encoding of a
\* text, or bytes that are not valid UTF-8.
Utf8(s) == [valid |-> TRUE, text |-> s]
InvalidBytes == [valid |-> FALSE, text |-> ""]
StdoutBytes == {Utf8(""), Utf8("PLAY RECAP ok=1"), InvalidBytes}
StderrBytes == {Utf8(""), Utf8("fatal: unreachable"), InvalidBytes}
ReturnCodes == {0, 1}

\* bool(b) of a bytes object: non-empty.
Truthy(b) == ~(b.valid /\ b.text = "")

\* bytes.decode(): the text, or UnicodeDecodeError.
UnicodeDecodeError == "'utf-8' codec can't decode byte 0xff in position 0: invalid start byte"
decode(b) ==
  IF b.valid THEN [raised |-> FALSE, value |-> b.text]
  ELSE [raised |-> TRUE, value |-> UnicodeDecodeError]

\* str(e) of the exceptions asyncio.create_subprocess_exec raises:
\* FileNotFoundError when the binary is missing, and NotImplementedError()
\* (empty text) on an event loop without subprocess support.
LaunchErrors == {"[Errno 2] No such file or directory: 'ansible-playbook'", ""}

VARIABLES
  playbook_files,  \* ids of the playbooks list_playbooks() finds on disk
  heap,            \* the PlaybookExecution objects, by execution id
  executions,      \* keys of self._executions (key k maps to heap[k])
  tasks,           \* position of each background _run_playbook task
  procs,           \* state of each launched ansible-playbook process
  clock,           \* last reading of datetime.utcnow()
  issued,          \* ids execute_playbook has returned to a caller
  last,            \* the last operation performed and what it returned
  learned,         \* the files of LEARNED_PLAYBOOKS_PATH, by file stem
  writer,          \* the file save_learned_playbook has open for writing
  crew,            \* the task the monitoring crew is at and its tool calls
  api_key,         \* ANTHROPIC_API_KEY, as read from the environment
  requests,        \* number of requests sent to the reasoning service
  snapshot,        \* the metrics data the telemetry source holds
  reports          \* what the calls of analyze_transactions returned

\* The state of the monitoring agents (agents/noc_monitoring_crew.py).
agents == <<crew, api_key, requests, snapshot, reports>>

vars == <<playbook_files, heap, executions, tasks, procs, clock, issued, last,
          learned, writer, crew, api_key, requests, snapshot, reports>>

\* A snapshot without transactions, servers and traffic.
EmptySnapshot ==
  [transactions |-> <<>>, servers |-> <<>>,
   layer7 |-> [http_2xx |-> 0, http_4xx |-> 0, http_5xx |-> 0]]

\* No crew was started, no key is configured and nothing was analysed.
AgentsIdle ==
  /\ crew = [task |-> "idle", log |-> <<>>]
  /\ api_key = None
  /\ requests = 0
  /\ snapshot = EmptySnapshot
  /\ reports = <<>>

\* datetime.utcnow(): a reading made after reading t is t or later; the
\* readings stop at MaxClock.
utcnow_after(t) == {u \in t..(t + 1) : u <= MaxClock}
utcnow == utcnow_after(clock)

\* ---------------------------------------------------------------- queries
\* Faulty variant: the existence of the playbook is not checked.
get_playbook_unchecked(playbook_id) == Some(playbook_id)

\* list_playbooks / get_playbook: the playbook with that id, if any.
get_playbook(playbook_id) ==
  IF playbook_id \in playbook_files THEN Some(playbook_id) ELSE None

\* self._executions.get(execution_id)
get_execution(execution_id) ==
  IF execution_id \in executions THEN Some(heap[execution_id]) ELSE None

\* Faulty variant: the record is created already Running.
PlaybookExecution_running(id, request, t) ==
  [id |-> id,
   playbook_id |-> request.playbook_id,
   incident_id |-> request.incident_id,
   status |-> RUNNING,
   started_at |-> t,
   completed_at |-> None,
   output |-> None,
   error |-> None]

\* The constructor call of execute_playbook.
PlaybookExecution(id, request, t) ==
  [id |-> id,
   playbook_id |-> request.playbook_id,
   incident_id |-> request.incident_id,
   status |-> PENDING,
   started_at |-> t,
   completed_at |-> None,
   output |-> None,
   error |-> None]

Init ==
  /\ playbook_files = {"restart_application"}
  /\ heap = <<>>
  /\ executions = {}
  /\ tasks = <<>>
  /\ procs = <<>>
  /\ clock = 0
  /\ issued = {}
  /\ last = [op |-> "init"]
  /\ learned = <<>>
  /\ writer = None
  /\ AgentsIdle

\* ------------------------------------------------------------------ submit
\* str(uuid.uuid4()): an id no earlier execution has.
uuid4 == Cardinality(DOMAIN heap) + 1

\* Faulty variant: execute_playbook leaves the insertion to the background task.
register_later(execution_id) == executions

\* self._executions[execution_id] = execution, in execute_playbook.
register(execution_id) == executions \cup {execution_id}

\* Faulty variant: storing the record again drops it from the table.
store_evicting(execution_id) == executions \ {execution_id}

\* self._executions[execution.id] = execution, in _run_playbook and
\* cancel_execution: the key is stored again with the same object.
store(execution_id) == executions \cup {execution_id}

\* AnsibleService.execute_playbook, called by the POST /run-playbook handler.
\* Nothing between the creation of the record and the return suspends the
\* coroutine, so the task made by asyncio.create_task has not run yet when
\* the record is returned.
execute_playbook(request) ==
  LET execution_id == uuid4
      playbook == get_playbook(request.playbook_id)
  IN IF playbook = None
     THEN /\ last' = [op |-> "execute_playbook", request |-> request,
                      raised |-> TRUE, http |-> 400,
                      detail |-> "Playbook not found"]
          /\ UNCHANGED <<agents, learned, writer, playbook_files, heap, executions, tasks, procs,
                         clock, issued>>
     ELSE /\ execution_id <= MaxExecutions
          /\ \E t \in utcnow :
               /\ clock' = t
               /\ heap' = heap @@
                    (execution_id :> PlaybookExecution(execution_id, request, t))
          /\ executions' = register(execution_id)
          /\ tasks' = tasks @@ (execution_id :> "created")
          /\ issued' = issued \cup {execution_id}
          /\ last' = [op |-> "execute_playbook", request |-> request,
                      raised |-> FALSE, http |-> 200, id |-> execution_id]
          /\ UNCHANGED <<agents, learned, writer, playbook_files, procs>>

\* ------------------------------------------------------- background task
\* Faulty variant: the except branch forgets the completion time.
run_failed_without_time(execution, e, t) ==
  [execution EXCEPT !.status = FAILED, !.error = Some(e)]

\* The except branch of _run_playbook.
run_failed(execution, e, t) ==
  [execution EXCEPT !.status = FAILED, !.completed_at = Some(t),
                    !.error = Some(e)]

\* stdout.decode() if stdout else ""
decoded_or(b, default) ==
  IF Truthy(b) THEN decode(b) ELSE [raised |-> FALSE, value |-> default]

\* Whether the code after process.communicate() raises.
completion_raises(returncode, stdout, stderr) ==
  \/ decoded_or(stdout, "").raised
  \/ returncode # 0 /\ decoded_or(stderr, "Unknown error").raised

\* Faulty variant: a non-zero return code is not turned into Failed.
run_completed_nonzero_ignored(execution, returncode, stdout, stderr, t1, t2) ==
  LET e1 == [execution EXCEPT !.completed_at = Some(t1)]
      out == decoded_or(stdout, "")
  IN IF out.raised THEN run_failed(e1, out.value, t2)
     ELSE LET e2 == [e1 EXCEPT !.output = Some(out.value)]
          IN IF returncode = 0 THEN [e2 EXCEPT !.status = SUCCESS] ELSE e2

\* Faulty variant: the status is Success whatever the return code.
run_completed_always_success(execution, returncode, stdout, stderr, t1, t2) ==
  LET e1 == [execution EXCEPT !.completed_at = Some(t1)]
      out == decoded_or(stdout, "")
  IN IF out.raised THEN run_failed(e1, out.value, t2)
     ELSE [e1 EXCEPT !.output = Some(out.value), !.status = SUCCESS]

\* The code of _run_playbook after process.communicate() returns: t1 is the
\* clock reading of the try block, t2 the reading of the except branch.
run_completed(execution, returncode, stdout, stderr, t1, t2) ==
  LET e1 == [execution EXCEPT !.completed_at = Some(t1)]
      out == decoded_or(stdout, "")
  IN IF out.raised THEN run_failed(e1, out.value, t2)
     ELSE LET e2 == [e1 EXCEPT !.output = Some(out.value)]
          IN IF returncode = 0 THEN [e2 EXCEPT !.status = SUCCESS]
             ELSE LET e3 == [e2 EXCEPT !.status = FAILED]
                      err == decoded_or(stderr, "Unknown error")
                  IN IF err.raised THEN run_failed(e3, err.value, t2)
                     ELSE [e3 EXCEPT !.error = Some(err.value)]

\* _run_playbook from its start to `await asyncio.create_subprocess_exec`.
run_playbook_dispatch(id) ==
  /\ id \in DOMAIN tasks /\ tasks[id] = "created"
  /\ heap' = [heap EXCEPT ![id].status = RUNNING]
  /\ executions' = store(id)
  /\ tasks' = [tasks EXCEPT ![id] = "launching"]
  /\ last' = [op |-> "dispatch", id |-> id]
  /\ UNCHANGED <<agents, learned, writer, playbook_files, procs, clock, issued>>

\* The same stretch when create_subprocess_exec raises before it suspends:
\* the except branch runs in the same step.
run_playbook_dispatch_raises(id, e) ==
  /\ id \in DOMAIN tasks /\ tasks[id] = "created"
  /\ \E t \in utcnow :
       /\ clock' = t
       /\ heap' = [heap EXCEPT
             ![id] = run_failed([heap[id] EXCEPT !.status = RUNNING], e, t)]
  /\ executions' = store(id)
  /\ tasks' = [tasks EXCEPT ![id] = "done"]
  /\ last' = [op |-> "dispatch_raises", id |-> id, e |-> e]
  /\ UNCHANGED <<agents, learned, writer, playbook_files, procs, issued>>

\* Faulty variant: a process is launched only when no other process is
\* running, as if waiting for a process held the event loop.
run_playbook_launched_exclusive(id) ==
  /\ id \in DOMAIN tasks /\ tasks[id] = "launching"
  /\ \A k \in DOMAIN procs : procs[k] # "running"
  /\ tasks' = [tasks EXCEPT ![id] = "communicating"]
  /\ procs' = procs @@ (id :> "running")
  /\ last' = [op |-> "launched", id |-> id]
  /\ UNCHANGED <<agents, learned, writer, playbook_files, heap, executions, clock, issued>>

\* create_subprocess_exec returns the process; the task suspends in
\* `await process.communicate()`.
run_playbook_launched(id) ==
  /\ id \in DOMAIN tasks /\ tasks[id] = "launching"
  /\ tasks' = [tasks EXCEPT ![id] = "communicating"]
  /\ procs' = procs @@ (id :> "running")
  /\ last' = [op |-> "launched", id |-> id]
  /\ UNCHANGED <<agents, learned, writer, playbook_files, heap, executions, clock, issued>>

\* create_subprocess_exec raises after it suspended.
run_playbook_launch_error(id, e) ==
  /\ id \in DOMAIN tasks /\ tasks[id] = "launching"
  /\ \E t \in utcnow :
       /\ clock' = t
       /\ heap' = [heap EXCEPT ![id] = run_failed(heap[id], e, t)]
  /\ executions' = store(id)
  /\ tasks' = [tasks EXCEPT ![id] = "done"]
  /\ last' = [op |-> "launch_error", id |-> id, e |-> e]
  /\ UNCHANGED <<agents, learned, writer, playbook_files, procs, issued>>

\* The process exits on its own and process.communicate() returns.
run_playbook_exit(id, returncode, stdout, stderr) ==
  /\ id \in DOMAIN tasks /\ tasks[id] = "communicating"
  /\ procs[id] = "running"
  /\ \E t1 \in utcnow : \E t2 \in utcnow_after(t1) :
       /\ clock' = IF completion_raises(returncode, stdout, stderr)
                   THEN t2 ELSE t1
       /\ heap' = [heap EXCEPT
             ![id] = run_completed(heap[id], returncode, stdout, stderr, t1, t2)]
  /\ executions' = store(id)
  /\ tasks' = [tasks EXCEPT ![id] = "done"]
  /\ procs' = [procs EXCEPT ![id] = "exited"]
  /\ last' = [op |-> "process_exit", id |-> id, returncode |-> returncode,
              stdout |-> stdout, stderr |-> stderr]
  /\ UNCHANGED <<agents, learned, writer, playbook_files, issued>>

\* ------------------------------------------------------------ cancel, get
\* Faulty variant: a Pending execution can be cancelled too.
cancellable_or_pending(execution) == execution.status \in {PENDING, RUNNING}

\* execution.status == PlaybookExecutionStatus.RUNNING
cancellable(execution) == execution.status = RUNNING

\* Faulty variant: cancel forgets the completion time.
cancelled_without_time(execution, t) == [execution EXCEPT !.status = CANCELLED]

\* The two assignments of cancel_execution.
cancelled(execution, t) ==
  [execution EXCEPT !.status = CANCELLED, !.completed_at = Some(t)]

\* Faulty variant: a successful cancel also kills the process and ends the task.
cancel_execution_killing(execution_id) ==
  LET execution == get_execution(execution_id)
  IN IF execution # None /\ cancellable(execution[1])
     THEN /\ \E t \in utcnow :
               /\ clock' = t
               /\ heap' = [heap EXCEPT
                     ![execution_id] = cancelled(execution[1], t)]
          /\ executions' = store(execution_id)
          /\ tasks' = [tasks EXCEPT ![execution_id] = "done"]
          /\ procs' = [id \in DOMAIN procs |->
                        IF id = execution_id THEN "exited" ELSE procs[id]]
          /\ last' = [op |-> "cancel_execution", id |-> execution_id,
                      result |-> TRUE, http |-> 200]
          /\ UNCHANGED <<agents, learned, writer, playbook_files, issued>>
     ELSE /\ last' = [op |-> "cancel_execution", id |-> execution_id,
                      result |-> FALSE, http |-> 400]
          /\ UNCHANGED <<agents, learned, writer, playbook_files, heap, executions, tasks, procs,
                         clock, issued>>

\* AnsibleService.cancel_execution, called by the POST .../cancel handler,
\* which answers 400 when the service returns False.
cancel_execution(execution_id) ==
  LET execution == get_execution(execution_id)
  IN IF execution # None /\ cancellable(execution[1])
     THEN /\ \E t \in utcnow :
               /\ clock' = t
               /\ heap' = [heap EXCEPT
                     ![execution_id] = cancelled(execution[1], t)]
          /\ executions' = store(execution_id)
          /\ last' = [op |-> "cancel_execution", id |-> execution_id,
                      result |-> TRUE, http |-> 200]
          /\ UNCHANGED <<agents, learned, writer, playbook_files, tasks, procs, issued>>
     ELSE /\ last' = [op |-> "cancel_execution", id |-> execution_id,
                      result |-> FALSE, http |-> 400]
          /\ UNCHANGED <<agents, learned, writer, playbook_files, heap, executions, tasks, procs,
                         clock, issued>>

\* The GET /executions/{id} handler: 404 when the service returns None.
get_execution_request(execution_id) ==
  LET execution == get_execution(execution_id)
  IN /\ last' = [op |-> "get_execution", id |-> execution_id,
                 result |-> execution,
                 http |-> IF execution = None THEN 404 ELSE 200]
     /\ UNCHANGED <<agents, learned, writer, playbook_files, heap, executions, tasks, procs,
                    clock, issued>>

\* ----------------------------------------------------------- specification
Next ==
  \/ \E request \in Requests : execute_playbook(request)
  \/ \E id \in ExecutionIds : run_playbook_dispatch(id)
  \/ \E id \in ExecutionIds : \E e \in LaunchErrors :
        run_playbook_dispatch_raises(id, e)
  \/ \E id \in ExecutionIds : run_playbook_launched(id)
  \/ \E id \in ExecutionIds : \E e \in LaunchErrors :
        run_playbook_launch_error(id, e)
  \/ \E id \in ExecutionIds : \E returncode \in ReturnCodes :
        \E stdout \in StdoutBytes : \E stderr \in StderrBytes :
          run_playbook_exit(id, returncode, stdout, stderr)
  \/ \E id \in ExecutionIds : cancel_execution(id)
  \/ \E id \in ExecutionIds : get_execution_request(id)

Spec == Init /\ [][Next]_vars

\* One process result for each way the completion code can end: Success,
\* Failed by the return code, Failed by an exception while decoding.
RepresentativeResults ==
  {<<0, Utf8("PLAY RECAP ok=1"), Utf8("")>>,
   <<1, Utf8("PLAY RECAP ok=1"), Utf8("fatal: unreachable")>>,
   <<0, InvalidBytes, Utf8("")>>}
RepresentativeErrors == {"[Errno 2] No such file or directory: 'ansible-playbook'"}

\* The background task of one execution: whichever step it is at.
run_playbook(id) ==
  \/ run_playbook_dispatch(id)
  \/ \E e \in RepresentativeErrors : run_playbook_dispatch_raises(id, e)
  \/ run_playbook_launched(id)
  \/ \E e \in RepresentativeErrors : run_playbook_launch_error(id, e)
  \/ \E r \in RepresentativeResults :
        run_playbook_exit(id, r[1], r[2], r[3])

\* The same operations with the process results drawn from the
\* representatives: progress does not depend on the captured text.
FairNext ==
  \/ \E request \in Requests : execute_playbook(request)
  \/ \E id \in ExecutionIds : run_playbook(id)
  \/ \E id \in ExecutionIds : cancel_execution(id)
  \/ \E id \in ExecutionIds : get_execution_request(id)

\* The event loop runs every task that is ready, the launch of a process
\* ends (with a process or an exception), and a launched process exits.
FairSpec ==
  /\ Init
  /\ [][FairNext]_vars
  /\ \A id \in ExecutionIds : WF_vars(run_playbook(id))

\* ------------------------------------------------------------------ claims
\* The status of an execution, "absent" before it exists.
StatusOf(id) == IF id \in DOMAIN heap THEN heap[id].status ELSE "absent"

\* C1: once the status of an execution is Success, Failed or Cancelled, no
\* later step changes it.
TerminalIsAbsorbing ==
  [][\A id \in DOMAIN heap :
       heap[id].status \in Terminal => heap'[id].status = heap[id].status]_vars

\* C2: every id execute_playbook has returned is in the execution table, so
\* get_execution finds it, whatever the background run has done since.
SubmittedIsVisible ==
  \A id \in issued : get_execution(id) # None

SubmittedIsVisibleWitness ==
  /\ last.op = "get_execution"
  /\ last.id \in issued
  /\ last.result # None
  /\ tasks[last.id] = "done"

\* C3: in the state in which execute_playbook returns a record, get_execution
\* of its id reports status Pending.
PendingOnReturn ==
  (last.op = "execute_playbook" /\ ~last.raised) =>
    /\ get_execution(last.id) # None
    /\ get_execution(last.id)[1].status = PENDING

PendingOnReturnWitness ==
  /\ last.op = "execute_playbook" /\ ~last.raised
  /\ last.id \in executions
  /\ tasks[last.id] = "created"

\* C4: cancel_execution returns True exactly when the id is in the table with
\* status Running at the call; then the status is Cancelled and completed_at
\* is set when it returns.
CancelTrueIffRunning ==
  [][last'.op = "cancel_execution" =>
       LET id == last'.id
       IN /\ last'.result <=> (id \in executions /\ heap[id].status = RUNNING)
          /\ last'.result =>
               /\ heap'[id].status = CANCELLED
               /\ heap'[id].completed_at # None]_vars

CancelTrueIffRunningWitness ==
  /\ last.op = "cancel_execution" /\ last.result
  /\ heap[last.id].status = CANCELLED
  /\ heap[last.id].completed_at # None

\* C5: cancel_execution of an id that is unknown, Pending or terminal returns
\* False and changes neither the table nor any record.
CancelRefusedChangesNothing ==
  [][(/\ last'.op = "cancel_execution"
      /\ ~(last'.id \in executions /\ heap[last'.id].status = RUNNING)) =>
       /\ last'.result = FALSE
       /\ heap' = heap
       /\ executions' = executions]_vars

CancelRefusedWitness ==
  /\ last.op = "cancel_execution" /\ ~last.result
  /\ last.id \in executions
  /\ heap[last.id].status = PENDING

\* C6: execute_playbook for a playbook that does not exist fails with
\* "Playbook not found", creates no record and no task, and leaves the table
\* unchanged.
UnknownPlaybookRejected ==
  [][(/\ last'.op = "execute_playbook"
      /\ last'.request.playbook_id \notin playbook_files) =>
       /\ last'.raised
       /\ last'.detail = "Playbook not found"
       /\ heap' = heap
       /\ executions' = executions
       /\ tasks' = tasks
       /\ procs' = procs
       /\ issued' = issued]_vars

UnknownPlaybookRejectedWitness ==
  /\ last.op = "execute_playbook" /\ last.raised
  /\ last.request.playbook_id \notin playbook_files
  /\ executions # {}

\* C7: under fair scheduling, an execution that was submitted and is never
\* cancelled eventually has status Success or Failed and keeps it.
SettlesUnlessCancelled ==
  \A id \in ExecutionIds :
    [](id \in issued =>
         \/ <>(StatusOf(id) = CANCELLED)
         \/ <>[](StatusOf(id) \in {SUCCESS, FAILED}))

SettlesUnlessCancelledWitness ==
  \E id \in issued :
    /\ heap[id].status \in {SUCCESS, FAILED}
    /\ tasks[id] = "done"
    /\ last.op = "process_exit" /\ last.id = id

\* The text the claims call "the captured stdout" or "the captured stderr".
Captured(b) == b.text

\* The steps of the background run that end it, for an execution that was
\* not cancelled before the step.
EndsRunUncancelled(id) ==
  /\ last'.op \in {"process_exit", "launch_error", "dispatch_raises"}
  /\ last'.id = id
  /\ heap[id].status # CANCELLED

\* C8 as stated: exit code 0 gives Success with output the captured stdout;
\* a non-zero exit code gives Failed with error the captured stderr; a launch
\* exception gives Failed with error the exception text; the task ends
\* normally.
CompletionAsStated ==
  [][\A id \in DOMAIN heap : EndsRunUncancelled(id) =>
       /\ tasks'[id] = "done"
       /\ (last'.op = "process_exit" /\ last'.returncode = 0) =>
            /\ heap'[id].status = SUCCESS
            /\ heap'[id].output = Some(Captured(last'.stdout))
       /\ (last'.op = "process_exit" /\ last'.returncode # 0) =>
            /\ heap'[id].status = FAILED
            /\ heap'[id].error = Some(Captured(last'.stderr))
       /\ last'.op \in {"launch_error", "dispatch_raises"} =>
            /\ heap'[id].status = FAILED
            /\ heap'[id].error = Some(last'.e)]_vars

\* C8 as amended: the outcome when the captured bytes decode, with the
\* "Unknown error" placeholder for an empty stderr, and Failed with the
\* exception text when decoding or launching raises.
CompletionAsCoded ==
  [][\A id \in DOMAIN heap : EndsRunUncancelled(id) =>
       /\ tasks'[id] = "done"
       /\ last'.op = "process_exit" =>
            LET rc == last'.returncode
                out == last'.stdout
                err == last'.stderr
            IN /\ (rc = 0 /\ out.valid) =>
                    /\ heap'[id].status = SUCCESS
                    /\ heap'[id].output = Some(out.text)
                    /\ heap'[id].error = None
               /\ (rc # 0 /\ out.valid /\ err.valid) =>
                    /\ heap'[id].status = FAILED
                    /\ heap'[id].output = Some(out.text)
                    /\ heap'[id].error =
                         Some(IF err.text = "" THEN "Unknown error" ELSE err.text)
               /\ (~out.valid \/ (rc # 0 /\ ~err.valid)) =>
                    /\ heap'[id].status = FAILED
                    /\ heap'[id].error = Some(UnicodeDecodeError)
       /\ last'.op \in {"launch_error", "dispatch_raises"} =>
            /\ heap'[id].status = FAILED
            /\ heap'[id].error = Some(last'.e)]_vars

CompletionAsCodedWitness ==
  /\ last.op = "process_exit"
  /\ last.returncode # 0
  /\ last.stderr = Utf8("")
  /\ heap[last.id].status = FAILED
  /\ heap[last.id].error = Some("Unknown error")
  /\ tasks[last.id] = "done"

\* C9: every execution whose status is Success, Failed or Cancelled has
\* completed_at set.
TerminalHasCompletedAt ==
  \A id \in DOMAIN heap :
    heap[id].status \in Terminal => heap[id].completed_at # None

TerminalHasCompletedAtWitness ==
  \E a \in DOMAIN heap : \E b \in DOMAIN heap :
    /\ heap[a].status = CANCELLED /\ heap[a].completed_at # None
    /\ heap[b].status = FAILED /\ heap[b].completed_at # None
    /\ last.op = "dispatch_raises"

\* C10: a successful cancel changes only the status and completed_at of its
\* target; the task and the process are left as they were, and a running
\* process stops running only by exiting on its own.
CancelIsBookkeepingOnly ==
  [][/\ (last'.op = "cancel_execution" /\ last'.result) =>
          LET id == last'.id
          IN /\ tasks' = tasks
             /\ procs' = procs
             /\ executions' = executions
             /\ DOMAIN heap' = DOMAIN heap
             /\ \A k \in DOMAIN heap : k # id => heap'[k] = heap[k]
             /\ [heap'[id] EXCEPT !.status = heap[id].status,
                                  !.completed_at = heap[id].completed_at]
                  = heap[id]
     /\ \A id \in DOMAIN procs :
          (procs[id] = "running" /\ procs'[id] # "running") =>
            (last'.op = "process_exit" /\ last'.id = id)]_vars

CancelIsBookkeepingOnlyWitness ==
  /\ last.op = "cancel_execution" /\ last.result
  /\ last.id \in DOMAIN procs
  /\ procs[last.id] = "running"
  /\ tasks[last.id] = "communicating"

\* The operations of the `last` record that are steps of a background run.
RunOps ==
  {"dispatch", "dispatch_raises", "launched", "launch_error", "process_exit"}

\* C11: executions run independently.  While an execution k is Running on a
\* process that has not exited, submit, get and cancel for the other ids can
\* complete, the background run of every other execution can take its next
\* step whatever k does (so it can go from Pending through Running to a
\* terminal status), and no step of the run of one execution changes the
\* record, the task or the process of another.
RunsAreIndependent ==
  /\ [](\A k \in DOMAIN procs :
          (heap[k].status = RUNNING /\ procs[k] = "running") =>
            /\ \A request \in Requests :
                 (get_playbook(request.playbook_id) = None
                    \/ uuid4 <= MaxExecutions) => ENABLED execute_playbook(request)
            /\ \A id \in ExecutionIds \ {k} :
                 /\ ENABLED get_execution_request(id)
                 /\ ENABLED cancel_execution(id)
            /\ \A id \in DOMAIN tasks \ {k} :
                 /\ tasks[id] = "created" => ENABLED run_playbook_dispatch(id)
                 /\ tasks[id] = "launching" => ENABLED run_playbook_launched(id)
                 /\ tasks[id] = "communicating" =>
                      ENABLED run_playbook_exit(id, 0, Utf8(""), Utf8("")))
  /\ [][last'.op \in RunOps =>
         \A id \in DOMAIN heap \ {last'.id} :
           /\ heap'[id] = heap[id]
           /\ tasks'[id] = tasks[id]
           /\ id \in DOMAIN procs => procs'[id] = procs[id]]_vars

\* One execution is still Running on its live process while a later one has
\* gone all the way to Success.
RunsAreIndependentWitness ==
  \E k \in DOMAIN procs : \E id \in DOMAIN heap \ {k} :
    /\ heap[k].status = RUNNING /\ procs[k] = "running"
    /\ last.op = "process_exit" /\ last.id = id
    /\ heap[id].status = SUCCESS

\* C12: executions are retained.  No step removes an id from the execution
\* table, so the set of ids only grows, and get_execution of an id of the
\* table returns its record, also after the record is terminal.
ExecutionsAreRetained ==
  /\ []((last.op = "get_execution" /\ last.id \in executions) =>
          (last.http = 200 /\ last.result = Some(heap[last.id])))
  /\ [][\A id \in executions :
          id \in executions' /\ id \in DOMAIN heap']_vars

\* get_execution returns a terminal record while the table holds more than
\* one execution.
ExecutionsAreRetainedWitness ==
  /\ last.op = "get_execution" /\ last.http = 200
  /\ last.result[1].status \in Terminal
  /\ Cardinality(executions) > 1

\* -------------------------------------------------------- list_executions
\* The arguments of GET /executions.  A query parameter that is absent is
\* None and one that is present without a value is the empty string; limit
\* is any integer up to 200 (Query(50, le=200) sets no lower bound).
ListPlaybookIds == {"restart_application", "collect_diagnostics"}
ListIncidentIds == {"INC-1"}
ListPlaybookFilters == {None, Some("")} \cup {Some(p) : p \in ListPlaybookIds}
ListIncidentFilters == {None, Some("")} \cup {Some(i) : i \in ListIncidentIds}
ListLimits == (0 - 1)..(MaxExecutions + 1)

\* `if playbook_id:` -- an Optional[str] is truthy when it is a non-empty
\* string.
Given(filter) == filter # None /\ filter # Some("")

\* list(self._executions.values()): the records in insertion order, which
\* is the order of the ids.
values == [i \in 1..Cardinality(executions) |-> heap[i]]

\* The two list comprehensions of list_executions.
filtered(es, playbook_id, incident_id) ==
  LET by_playbook ==
        IF Given(playbook_id)
        THEN SelectSeq(es, LAMBDA e : e.playbook_id = playbook_id[1])
        ELSE es
  IN IF Given(incident_id)
     THEN SelectSeq(by_playbook, LAMBDA e : e.incident_id = incident_id)
     ELSE by_playbook

\* Faulty variant: the sort is ascending.
RECURSIVE sorted_ascending(_)
sorted_ascending(es) ==
  IF es = <<>> THEN <<>>
  ELSE LET e == Head(es)
           rest == sorted_ascending(Tail(es))
           before == SelectSeq(rest, LAMBDA x : x.started_at < e.started_at)
           after == SelectSeq(rest, LAMBDA x : x.started_at >= e.started_at)
       IN before \o <<e>> \o after

\* executions.sort(key=lambda e: e.started_at, reverse=True): descending,
\* and stable, so records with equal started_at keep their order.
RECURSIVE sorted_descending(_)
sorted_descending(es) ==
  IF es = <<>> THEN <<>>
  ELSE LET e == Head(es)
           rest == sorted_descending(Tail(es))
           before == SelectSeq(rest, LAMBDA x : x.started_at > e.started_at)
           after == SelectSeq(rest, LAMBDA x : x.started_at <= e.started_at)
       IN before \o <<e>> \o after

\* es[:limit]: the first limit elements, and for a negative limit all but
\* the last -limit.
slice_to(es, limit) ==
  LET stop == IF limit >= 0 THEN limit ELSE Len(es) + limit
  IN SubSeq(es, 1, IF stop > Len(es) THEN Len(es) ELSE stop)

\* AnsibleService.list_executions
list_executions(playbook_id, incident_id, limit) ==
  slice_to(sorted_descending(filtered(values, playbook_id, incident_id)), limit)

\* The GET /executions handler.
list_executions_request(playbook_id, incident_id, limit) ==
  /\ last' = [op |-> "list_executions", playbook_id |-> playbook_id,
              incident_id |-> incident_id, limit |-> limit,
              result |-> list_executions(playbook_id, incident_id, limit)]
  /\ UNCHANGED <<agents, learned, writer, playbook_files, heap, executions, tasks,
                 procs, clock, issued>>

\* The execution tables list_executions is applied to: up to MaxExecutions
\* submitted executions, whose started_at are wall-clock readings (which
\* need not increase with the id).
ListRecords ==
  {[PlaybookExecution(0, [playbook_id |-> p, incident_id |-> i], t)
      EXCEPT !.incident_id = i] :
     p \in ListPlaybookIds,
     i \in {None} \cup {Some(x) : x \in ListIncidentIds},
     t \in 0..MaxStamp}
ListTables ==
  UNION {[1..n -> ListRecords] : n \in 0..MaxExecutions}

ListInit ==
  /\ playbook_files = ListPlaybookIds
  /\ \E table \in ListTables :
       /\ heap = [id \in DOMAIN table |-> [table[id] EXCEPT !.id = id]]
       /\ executions = DOMAIN table
       /\ tasks = [id \in DOMAIN table |-> "created"]
       /\ issued = DOMAIN table
       /\ clock = IF table = <<>> THEN 0 ELSE table[Len(table)].started_at
  /\ procs = <<>>
  /\ last = [op |-> "init"]
  /\ learned = <<>>
  /\ writer = None
  /\ AgentsIdle

ListNext ==
  \E playbook_id \in ListPlaybookFilters :
    \E incident_id \in ListIncidentFilters :
      \E limit \in ListLimits :
        list_executions_request(playbook_id, incident_id, limit)

ListSpec == ListInit /\ [][ListNext]_vars

\* Whether a record of the table matches the filters that are given.
Matches(e, playbook_id, incident_id) ==
  /\ Given(playbook_id) => e.playbook_id = playbook_id[1]
  /\ Given(incident_id) => e.incident_id = incident_id
Matching(playbook_id, incident_id) ==
  {id \in executions : Matches(heap[id], playbook_id, incident_id)}

\* The result holds records of the table that match the filters, each at
\* most once, in descending order of started_at, and every matching record
\* it leaves out started no later than those it holds.
IsTopOfMatching(result, playbook_id, incident_id) ==
  /\ \A i \in DOMAIN result :
       /\ result[i].id \in Matching(playbook_id, incident_id)
       /\ result[i] = heap[result[i].id]
  /\ \A i, j \in DOMAIN result :
       i < j => /\ result[i].id # result[j].id
                /\ result[i].started_at >= result[j].started_at
  /\ \A id \in Matching(playbook_id, incident_id) :
       (\A i \in DOMAIN result : result[i].id # id) =>
         \A i \in DOMAIN result : heap[id].started_at <= result[i].started_at

\* C13: list_executions returns exactly the executions of the table that
\* match every given filter, in descending order of started_at, truncated
\* to the first `limit` of that order, so at most `limit` records, and it
\* leaves the table as it was.
ListAsStated ==
  /\ [](last.op = "list_executions" =>
        LET n == Cardinality(Matching(last.playbook_id, last.incident_id))
        IN /\ IsTopOfMatching(last.result, last.playbook_id, last.incident_id)
           /\ Len(last.result) = IF last.limit < n THEN last.limit ELSE n
           /\ Len(last.result) <= last.limit)
  /\ [][last'.op = "list_executions" => UNCHANGED <<heap, executions>>]_vars

\* The same statement for the limits that are not negative, and what the
\* slice returns for a negative one: all but the last -limit records of the
\* order.
ListAsCoded ==
  /\ [](last.op = "list_executions" =>
        LET n == Cardinality(Matching(last.playbook_id, last.incident_id))
            kept == IF last.limit >= 0 THEN last.limit ELSE n + last.limit
        IN /\ IsTopOfMatching(last.result, last.playbook_id, last.incident_id)
           /\ Len(last.result) =
                IF kept < 0 THEN 0 ELSE IF kept < n THEN kept ELSE n)
  /\ [][last'.op = "list_executions" => UNCHANGED <<heap, executions>>]_vars

\* A list with a filter and a limit that cuts a result whose records have
\* different started_at.
ListAsCodedWitness ==
  /\ last.op = "list_executions"
  /\ Given(last.playbook_id)
  /\ last.limit > 0
  /\ last.limit < Cardinality(Matching(last.playbook_id, last.incident_id))
  /\ \E id \in Matching(last.playbook_id, last.incident_id) :
       heap[id].started_at < last.result[1].started_at

\* ==========================================================================
\* The Catalog and the Learner of the monitoring crew
\* (agents/noc_monitoring_crew.py): search_playbooks reads the playbook
\* directory and the learned store, save_learned_playbook writes one file of
\* the learned store.  They are plain functions of a process of their own;
\* other processes read and write the same directories.
\* ==========================================================================

\* -------------------------------------------------------------- texts
\* The characters of the anomaly types and tags of the model: the search
\* tests a type against a text, character by character.
Chars(s) ==
  CASE s = "cpu" -> <<"c", "p", "u">>
    [] s = "high_cpu" -> <<"h", "i", "g", "h", "_", "c", "p", "u">>
    [] s = "disk_full" -> <<"d", "i", "s", "k", "_", "f", "u", "l", "l">>
    [] s = "unknown" -> <<"u", "n", "k", "n", "o", "w", "n">>

\* repr(s) of a str without quotes in it.
repr(s) == <<"'">> \o Chars(s) \o <<"'">>

\* str(l) of a list of str: "['a', 'b']".
RECURSIVE joined(_)
joined(l) ==
  IF l = <<>> THEN <<>>
  ELSE IF Len(l) = 1 THEN repr(l[1])
  ELSE repr(l[1]) \o <<",", " ">> \o joined(Tail(l))
str_list(l) == <<"[">> \o joined(l) \o <<"]">>

\* `needle in text` on str: needle occurs in text as a substring.
Contains(text, needle) ==
  \E i \in 0..(Len(text) - Len(needle)) :
    SubSeq(text, i + 1, i + Len(needle)) = needle

\* str(n) of the step numbers of the model.
str_int(n) == CASE n = 0 -> "0" [] n = 1 -> "1" [] n = 2 -> "2"

\* ---------------------------------------------------- the playbook table
\* playbook_mapping of search_playbooks.
playbook_mapping ==
  [high_latency |-> <<"high_error_rate_investigation", "collect_diagnostics">>,
   timeout |-> <<"network_connectivity_test", "restart_application">>,
   connection_refused |-> <<"network_connectivity_test", "restart_application">>,
   hash_mismatch |-> <<"collect_diagnostics", "blockchain_node_recovery">>,
   consensus_failure |-> <<"blockchain_node_recovery">>,
   vault_sealed |-> <<"collect_diagnostics">>,
   ddos_detected |-> <<"firewall_emergency_block">>,
   replication_broken |-> <<"database_failover">>,
   high_cpu |-> <<"memory_pressure_relief", "collect_diagnostics">>,
   high_memory |-> <<"memory_pressure_relief">>,
   high_error_rate |-> <<"high_error_rate_investigation", "restart_application">>,
   jwt_validation_failed |-> <<"restart_application", "collect_diagnostics">>,
   service_degradation |-> <<"restart_application", "load_balancer_drain">>]

\* playbook_mapping.get(anomaly_type, [])
playbook_names(anomaly_type) ==
  IF anomaly_type \in DOMAIN playbook_mapping
  THEN playbook_mapping[anomaly_type] ELSE <<>>

\* The anomaly types searched for: one of the table, one that is a substring
\* of it and in no table entry, and one unrelated to both.
AnomalyTypes == {"high_cpu", "cpu", "disk_full"}

\* The playbook files search_playbooks can look for with these types.
BuiltinFiles == {"memory_pressure_relief", "collect_diagnostics"}

\* ------------------------------------------------------ the learned store
\* A play of a playbook file.  `vars` is flattened into the play.
Play(name, target_anomalies, created_at, requires_approval, play_tasks) ==
  [name |-> name,
   hosts |-> "{{ target_hosts | default('all') }}",
   become |-> TRUE,
   target_anomalies |-> target_anomalies,
   learned_from |-> "llm",
   created_at |-> created_at,
   requires_approval |-> requires_approval,
   tasks |-> play_tasks]

\* The content of a .yml file, by what yaml.safe_load makes of it:
\*   "invalid"  text that is not YAML (safe_load raises yaml.YAMLError),
\*   "empty"    no document (safe_load returns None),
\*   "mapping"  a document that is one mapping, the play plays[1],
\*   "list"     a document that is a list of mappings, the plays.
InvalidYaml == [text |-> "invalid", plays |-> <<>>]
EmptyFile == [text |-> "empty", plays |-> <<>>]
MappingFile(play) == [text |-> "mapping", plays |-> <<play>>]
ListFile(plays) == [text |-> "list", plays |-> plays]

\* Files of the learned store that were not written by save_learned_playbook:
\* a playbook written by hand as one mapping, and a file that is not YAML.
ManualFiles ==
  {MappingFile(Play(<<"manual">>, tags, <<>>, TRUE, <<>>)) :
     tags \in {<<"high_cpu">>, <<"disk_full", "cpu">>}}
  \cup {InvalidYaml}

\* The names save_learned_playbook is called with; the first is also the
\* name of the file written by hand.
LearnedNames == {"manual", "llm_fix"}

\* ------------------------------------------------------------ the search
\* EXISTING and LEARNED confidence, in tenths.
ExistingConfidence == 9
LearnedConfidence == 8

\* Faulty variant: the file is taken to exist.
exists_assumed(pb_name) == TRUE

\* (PLAYBOOKS_PATH / f"{pb_name}.yml").exists()
exists(pb_name) == pb_name \in playbook_files

\* The candidate appended for a playbook of the table.
existing_candidate(pb_name) ==
  [name |-> pb_name, path |-> <<"PLAYBOOKS_PATH", pb_name>>,
   source |-> "existing", confidence |-> ExistingConfidence]

\* Faulty variant: a learned candidate gets the confidence of an existing one.
learned_candidate_overrated(stem) ==
  [name |-> stem, path |-> <<"LEARNED_PLAYBOOKS_PATH", stem>>,
   source |-> "learned", confidence |-> ExistingConfidence]

\* The candidate appended for a file of the learned store.
learned_candidate(stem) ==
  [name |-> stem, path |-> <<"LEARNED_PLAYBOOKS_PATH", stem>>,
   source |-> "learned", confidence |-> LearnedConfidence]

\* The first loop of search_playbooks.
RECURSIVE existing_matches(_)
existing_matches(names) ==
  IF names = <<>> THEN <<>>
  ELSE (IF exists(Head(names)) THEN <<existing_candidate(Head(names))>>
        ELSE <<>>) \o existing_matches(Tail(names))

\* What one iteration of the second loop does with a file:
\*   "skip"     YAMLError is caught, or pb_content is falsy, or no match;
\*   "match"    the candidate is appended;
\*   "raise"    pb_content is a non-empty list, which has no .get: the
\*              AttributeError is not caught by `except yaml.YAMLError`.
scan(content, anomaly_type) ==
  CASE content.text = "invalid" -> "skip"
    [] content.text = "empty" -> "skip"
    [] content.text = "list" ->
         IF content.plays = <<>> THEN "skip" ELSE "raise"
    [] content.text = "mapping" ->
         IF Contains(str_list(content.plays[1].target_anomalies),
                     Chars(anomaly_type))
         THEN "match" ELSE "skip"

\* The second loop over the files in the order glob yields them: the
\* candidates, or the exception that ends the loop.
RECURSIVE learned_matches(_, _)
learned_matches(stems, anomaly_type) ==
  IF stems = <<>> THEN [raised |-> FALSE, matching |-> <<>>]
  ELSE LET found == scan(learned[Head(stems)], anomaly_type)
           rest == learned_matches(Tail(stems), anomaly_type)
       IN IF found = "raise" \/ rest.raised
          THEN [raised |-> TRUE, matching |-> <<>>]
          ELSE [raised |-> FALSE,
                matching |-> (IF found = "match"
                              THEN <<learned_candidate(Head(stems))>>
                              ELSE <<>>) \o rest.matching]

\* The orders in which LEARNED_PLAYBOOKS_PATH.glob("*.yml") can yield the
\* files: any order of the files of the directory.
GlobOrders ==
  {order \in UNION {[1..n -> DOMAIN learned] : n \in {Cardinality(DOMAIN learned)}} :
     \A i, j \in DOMAIN order : i # j => order[i] # order[j]}

\* search_playbooks: the value of the returned JSON text, or the exception.
search_playbooks(anomaly_type, order) ==
  LET existing == existing_matches(playbook_names(anomaly_type))
      from_store == learned_matches(order, anomaly_type)
      matching == existing \o from_store.matching
  IN IF from_store.raised
     THEN [raised |-> TRUE,
           error |-> "AttributeError: 'list' object has no attribute 'get'"]
     ELSE [raised |-> FALSE,
           anomaly_type |-> anomaly_type,
           matching_playbooks |-> matching,
           playbook_found |-> Len(matching) > 0]

\* One call of the search tool.
search_playbooks_call(anomaly_type, order) ==
  /\ last' = [op |-> "search_playbooks", anomaly_type |-> anomaly_type,
              order |-> order,
              returned |-> search_playbooks(anomaly_type, order)]
  /\ UNCHANGED <<agents, learned, writer, playbook_files, heap, executions, tasks,
                 procs, clock, issued>>

\* ----------------------------------------------------------- the Learner
\* A step of a remediation plan; a key that is absent is None.
Step(step, action, command, is_destructive) ==
  [step |-> step, action |-> action, command |-> command,
   is_destructive |-> is_destructive]

\* remediation_data: text that is not JSON, or the JSON text of a plan.
InvalidJson ==
  [valid |-> FALSE, root_cause |-> None, remediation_steps |-> <<>>,
   requires_approval |-> None]
Plan(root_cause, remediation_steps, requires_approval) ==
  [valid |-> TRUE, root_cause |-> root_cause,
   remediation_steps |-> remediation_steps,
   requires_approval |-> requires_approval]

RestartStep ==
  Step(Some(1), Some("Restart the service"), Some("systemctl restart app"),
       Some(TRUE))
BareStep == Step(Some(2), None, None, None)
UnnumberedStep == Step(None, None, Some("df -h"), Some(FALSE))

\* The plans of the model: two steps and one step with a root cause, and no
\* step, no root cause and no approval.
Plans ==
  {Plan(Some("high_cpu"), <<RestartStep, BareStep>>, None),
   Plan(Some("disk_full"), <<UnnumberedStep>>, None),
   Plan(None, <<>>, Some(FALSE))}
RemediationData == Plans \cup {InvalidJson}

\* dict.get(key, default) of a key that may be absent.
get_or(value, default) == IF value = None THEN default ELSE value[1]

\* Faulty variant: every task gets the guard, destructive or not.
task_of_always_guarded(step) ==
  [name |-> IF step.action # None THEN <<step.action[1]>>
            ELSE <<"Step ", IF step.step = None THEN "?"
                            ELSE str_int(step.step[1])>>,
   shell |-> get_or(step.command, "echo 'No command specified'"),
   register |-> <<"step_", str_int(get_or(step.step, 0)), "_result">>,
   when |-> Some("approve_destructive | default(false)")]

\* The task save_learned_playbook makes of a step.
task_of(step) ==
  [name |-> IF step.action # None THEN <<step.action[1]>>
            ELSE <<"Step ", IF step.step = None THEN "?"
                            ELSE str_int(step.step[1])>>,
   shell |-> get_or(step.command, "echo 'No command specified'"),
   register |-> <<"step_", str_int(get_or(step.step, 0)), "_result">>,
   when |-> IF get_or(step.is_destructive, FALSE)
            THEN Some("approve_destructive | default(false)") ELSE None]

\* datetime.isoformat()
isoformat(t) == <<"isoformat", t>>

\* playbook_content[0] of save_learned_playbook.
playbook_content(playbook_name, remediation, t) ==
  Play(<<"Learned Playbook: ", playbook_name>>,
       <<get_or(remediation.root_cause, "unknown")>>,
       isoformat(t),
       get_or(remediation.requires_approval, TRUE),
       [i \in DOMAIN remediation.remediation_steps |->
          task_of(remediation.remediation_steps[i])])

\* The content of the file of that stem when it is opened, if it exists.
content_of(stem) == IF stem \in DOMAIN learned THEN learned[stem] ELSE EmptyFile

\* Faulty variant: the file is opened for appending.
opened_for_append(content) == content

\* open(file_path, 'w'): the file exists and is empty.
opened(content) == EmptyFile

\* yaml.dump(playbook_content, f): the one-element list is written after
\* what the file holds, which is nothing after open(file_path, 'w').
dumped(content, play) == ListFile(content.plays \o <<play>>)

\* save_learned_playbook up to and including open(file_path, 'w'): the plan
\* is parsed and converted and the file is created or emptied.  Text that
\* is not JSON ends the call with the error result.
save_learned_playbook_open(playbook_name, remediation_data) ==
  /\ writer = None
  /\ IF ~remediation_data.valid
     THEN /\ last' = [op |-> "save_learned_playbook",
                      playbook_name |-> playbook_name,
                      remediation_data |-> remediation_data,
                      returned |-> [error |-> "Invalid remediation data"]]
          /\ UNCHANGED <<agents, learned, writer, playbook_files, heap, executions,
                         tasks, procs, clock, issued>>
     ELSE /\ \E t \in utcnow :
               /\ clock' = t
               /\ writer' = Some([playbook_name |-> playbook_name,
                                  remediation_data |-> remediation_data,
                                  play |-> playbook_content(playbook_name,
                                                            remediation_data, t),
                                  replaced |-> content_of(playbook_name)])
          /\ learned' = [stem \in DOMAIN learned \cup {playbook_name} |->
                           IF stem = playbook_name
                           THEN opened(content_of(playbook_name))
                           ELSE learned[stem]]
          /\ last' = [op |-> "open", playbook_name |-> playbook_name]
          /\ UNCHANGED <<agents, playbook_files, heap, executions, tasks, procs,
                         issued>>

\* The rest of save_learned_playbook: the playbook is written, the file is
\* closed and the success result is returned.
save_learned_playbook_write ==
  /\ writer # None
  /\ LET w == writer[1]
     IN /\ learned' = [learned EXCEPT
              ![w.playbook_name] = dumped(learned[w.playbook_name], w.play)]
        /\ last' = [op |-> "save_learned_playbook",
                    playbook_name |-> w.playbook_name,
                    remediation_data |-> w.remediation_data,
                    replaced |-> w.replaced,
                    returned |-> [success |-> TRUE,
                                  playbook_path |-> <<"LEARNED_PLAYBOOKS_PATH",
                                                      w.playbook_name>>,
                                  playbook_name |-> w.playbook_name,
                                  task_count |-> Len(w.play.tasks)]]
  /\ writer' = None
  /\ UNCHANGED <<agents, playbook_files, heap, executions, tasks, procs, clock,
                 issued>>

\* ------------------------------------------------- the playbook directory
\* A playbook file is removed from PLAYBOOKS_PATH, or put (back) there.
playbook_removed(pb_name) ==
  /\ pb_name \in playbook_files
  /\ playbook_files' = playbook_files \ {pb_name}
  /\ last' = [op |-> "playbook_removed", name |-> pb_name]
  /\ UNCHANGED <<agents, learned, writer, heap, executions, tasks, procs, clock,
                 issued>>

playbook_added(pb_name) ==
  /\ pb_name \notin playbook_files
  /\ playbook_files' = playbook_files \cup {pb_name}
  /\ last' = [op |-> "playbook_added", name |-> pb_name]
  /\ UNCHANGED <<agents, learned, writer, heap, executions, tasks, procs, clock,
                 issued>>

\* ---------------------------------------------------------- specification
\* The playbooks of the table are deployed; the learned store is empty or
\* holds one file that was put there by hand; no execution was submitted.
CatalogInit ==
  /\ playbook_files = BuiltinFiles
  /\ \/ learned = <<>>
     \/ \E content \in ManualFiles : learned = [stem \in {"manual"} |-> content]
  /\ writer = None
  /\ heap = <<>>
  /\ executions = {}
  /\ tasks = <<>>
  /\ procs = <<>>
  /\ clock = 0
  /\ issued = {}
  /\ last = [op |-> "init"]
  /\ AgentsIdle

CatalogNext ==
  \/ \E anomaly_type \in AnomalyTypes : \E order \in GlobOrders :
        search_playbooks_call(anomaly_type, order)
  \/ \E playbook_name \in LearnedNames :
        \E remediation_data \in RemediationData :
          save_learned_playbook_open(playbook_name, remediation_data)
  \/ save_learned_playbook_write
  \/ \E pb_name \in BuiltinFiles : playbook_removed(pb_name)
  \/ \E pb_name \in BuiltinFiles : playbook_added(pb_name)

CatalogSpec == CatalogInit /\ [][CatalogNext]_vars

\* ------------------------------------------------- claims on the Catalog
\* The elements of a sequence.
Range(seq) == {seq[i] : i \in DOMAIN seq}

\* The search that was just made returned a result (it did not raise).
Returned == last.op = "search_playbooks" /\ ~last.returned.raised

\* The candidates of a result that have the given source.
CandidatesOf(result, source) ==
  SelectSeq(result.matching_playbooks, LAMBDA c : c.source = source)

\* The names of a sequence of candidates.
NamesOf(candidates) == [i \in DOMAIN candidates |-> candidates[i].name]

\* The file of that stem is a record save_learned_playbook wrote for that
\* plan, completely.
PersistedAs(stem, plan) ==
  /\ stem \in DOMAIN learned
  /\ \E t \in 0..MaxClock :
       learned[stem] = ListFile(<<playbook_content(stem, plan, t)>>)

\* C14: round trip.  After save_learned_playbook(name, plan) has succeeded,
\* a search for the tag of the persisted record completes without raising
\* and returns found = true with a candidate named `name` of source learned,
\* for a record that has as many steps as the plan.
PersistedIsFound ==
  last.op = "search_playbooks" =>
    \A stem \in DOMAIN learned : \A plan \in Plans :
      (/\ PersistedAs(stem, plan)
       /\ last.anomaly_type = get_or(plan.root_cause, "unknown")) =>
        /\ ~last.returned.raised
        /\ last.returned.playbook_found
        /\ \E c \in Range(CandidatesOf(last.returned, "learned")) :
             c.name = stem
        /\ Len(learned[stem].plays[1].tasks) = Len(plan.remediation_steps)

\* The tags of the descriptor a file of the learned store holds.
TagsOf(stem) ==
  IF learned[stem].plays = <<>> THEN {}
  ELSE Range(learned[stem].plays[1].target_anomalies)

\* C15: a search that returns holds a learned descriptor if and only if the
\* queried type is an exact member of the tags of that descriptor; a tag
\* that merely contains the type as a substring does not match.
MatchIsExactMembership ==
  Returned =>
    \A stem \in DOMAIN learned :
      (stem \in Range(NamesOf(CandidatesOf(last.returned, "learned"))))
        <=> (last.anomaly_type \in TagsOf(stem))

\* C16: a malformed record never aborts the search.  Whatever the learned
\* store holds (text that is not YAML, a document that is not one mapping),
\* the search returns, and its result holds every file that is one mapping
\* with the queried type among its tags.
MalformedIsSkipped ==
  last.op = "search_playbooks" =>
    /\ ~last.returned.raised
    /\ \A stem \in DOMAIN learned :
         (learned[stem].text = "mapping" /\ last.anomaly_type \in TagsOf(stem))
           => stem \in Range(NamesOf(CandidatesOf(last.returned, "learned")))

\* What the search does with the malformed records: text that is not YAML
\* and an empty file are skipped, and the search raises exactly when some
\* file is a non-empty list.
MalformedAsCoded ==
  last.op = "search_playbooks" =>
    /\ last.returned.raised <=>
         \E stem \in DOMAIN learned :
           learned[stem].text = "list" /\ learned[stem].plays # <<>>
    /\ ~last.returned.raised =>
         \A stem \in DOMAIN learned :
           learned[stem].text \in {"invalid", "empty"} =>
             stem \notin Range(NamesOf(CandidatesOf(last.returned, "learned")))

\* C17: the built-in candidates of a search that returns are exactly the
\* names of the table entry of the queried type whose playbook file exists
\* when the search is made, in the order of the table and before every
\* learned candidate.  Existence is looked up by each search, so a file
\* removed since an earlier search is left out and one added is included;
\* a missing file is never an error (a search raises only on a file of the
\* learned store).
BuiltinsFollowTheDirectory ==
  last.op = "search_playbooks" =>
    /\ Returned =>
         LET result == last.returned.matching_playbooks
         IN /\ NamesOf(CandidatesOf(last.returned, "existing")) =
                 SelectSeq(playbook_names(last.anomaly_type),
                           LAMBDA pb_name : pb_name \in playbook_files)
            /\ \A i, j \in DOMAIN result :
                 (i < j /\ result[i].source = "learned") =>
                   result[j].source = "learned"
    /\ last.returned.raised =>
         \E stem \in DOMAIN learned : learned[stem].text = "list"

\* A search for a type with two playbooks made after one of the two files
\* (all deployed at the start) was removed: the other one is returned, ahead
\* of a learned candidate.
BuiltinsFollowTheDirectoryWitness ==
  /\ Returned
  /\ last.anomaly_type = "high_cpu"
  /\ "memory_pressure_relief" \notin playbook_files
  /\ NamesOf(last.returned.matching_playbooks) =
       <<"collect_diagnostics", "manual">>

\* C18: search returns found = true if and only if its list of candidates,
\* built-in and learned together, is not empty; for a type that is in no
\* entry of the playbook table and among the tags of no learned descriptor
\* it returns found = false with an empty list.
FoundIffCandidates ==
  last.op = "search_playbooks" =>
    /\ Returned =>
         (last.returned.playbook_found
            <=> last.returned.matching_playbooks # <<>>)
    /\ (/\ last.anomaly_type \notin DOMAIN playbook_mapping
        /\ \A stem \in DOMAIN learned : last.anomaly_type \notin TagsOf(stem))
         => /\ Returned
            /\ ~last.returned.playbook_found
            /\ last.returned.matching_playbooks = <<>>

\* The part of C18 that is about the result alone: in every search that
\* returns, found is true exactly when the list of candidates is not empty.
FoundIffNonEmpty ==
  Returned =>
    (last.returned.playbook_found <=> Len(last.returned.matching_playbooks) > 0)

\* C19: every descriptor a search returns has confidence 0.9 (9 tenths) when
\* its source is existing and 0.8 (8 tenths) when its source is learned,
\* whatever the stores hold and whatever type is queried.
ConfidenceFollowsSource ==
  Returned =>
    \A c \in Range(last.returned.matching_playbooks) :
      \/ c.source = "existing" /\ c.confidence = 9
      \/ c.source = "learned" /\ c.confidence = 8

\* A result that holds a candidate of each source.
ConfidenceFollowsSourceWitness ==
  /\ Returned
  /\ CandidatesOf(last.returned, "existing") # <<>>
  /\ CandidatesOf(last.returned, "learned") # <<>>

\* C20: save_learned_playbook is last-write-wins by name.  When a call for
\* name n and plan p succeeds, the store holds one record under n, whose
\* tags and steps are those made of p alone, whatever an earlier call wrote
\* under n; the files of the other names are as they were.  A call that
\* returns the error result leaves the store as it was.
LastWriteWins ==
  [][/\ (last'.op = "save_learned_playbook"
           /\ "success" \in DOMAIN last'.returned) =>
          LET n == last'.playbook_name
              p == last'.remediation_data
              record == learned'[n]
          IN /\ record.text = "list"
             /\ Len(record.plays) = 1
             /\ record.plays[1].target_anomalies =
                  <<IF p.root_cause = None THEN "unknown" ELSE p.root_cause[1]>>
             /\ Len(record.plays[1].tasks) = Len(p.remediation_steps)
             /\ \A i \in DOMAIN p.remediation_steps :
                  record.plays[1].tasks[i] = task_of(p.remediation_steps[i])
             /\ DOMAIN learned' = DOMAIN learned
             /\ \A m \in DOMAIN learned \ {n} : learned'[m] = learned[m]
     /\ last'.op = "open" =>
          /\ DOMAIN learned' = DOMAIN learned \cup {last'.playbook_name}
          /\ \A m \in DOMAIN learned \ {last'.playbook_name} :
               learned'[m] = learned[m]
     /\ (last'.op = "save_learned_playbook"
           /\ "error" \in DOMAIN last'.returned) => learned' = learned]_vars

\* A call has just replaced the record an earlier call wrote under the same
\* name for a plan with more steps and another root cause, while the store
\* holds a file of another name.
LastWriteWinsWitness ==
  /\ last.op = "save_learned_playbook"
  /\ "success" \in DOMAIN last.returned
  /\ last.replaced.text = "list"
  /\ Len(last.replaced.plays[1].tasks) > last.returned.task_count
  /\ last.replaced.plays[1].target_anomalies
       # learned[last.playbook_name].plays[1].target_anomalies
  /\ Cardinality(DOMAIN learned) > 1

\* C21: a search made while save_learned_playbook is writing a name never
\* observes a partially written record.  For that name the scan sees what
\* the store held before the call (the previous record, or no record) or
\* the complete new record, and the search does not fail.
ScanSeesWholeRecords ==
  (last.op = "search_playbooks" /\ writer # None) =>
    /\ learned[writer[1].playbook_name]
         \in {writer[1].replaced, ListFile(<<writer[1].play>>)}
    /\ ~last.returned.raised

\* C22: save_learned_playbook converts the steps of the plan one to one and
\* in order.  Task i of the written playbook has the action text of step i
\* as its name and the command of step i as its shell command, and it has
\* the guard `when: approve_destructive | default(false)` (the task is
\* skipped unless the run sets approve_destructive) if and only if step i
\* is marked destructive.
StepsAreConverted ==
  (last.op = "save_learned_playbook" /\ "success" \in DOMAIN last.returned) =>
    LET steps == last.remediation_data.remediation_steps
        written == learned[last.playbook_name].plays[1].tasks
    IN /\ Len(written) = Len(steps)
       /\ \A i \in DOMAIN steps :
            /\ steps[i].action # None => written[i].name = steps[i].action
            /\ steps[i].command # None => written[i].shell = steps[i].command[1]
            /\ (written[i].when = Some("approve_destructive | default(false)"))
                 <=> (steps[i].is_destructive = Some(TRUE))
            /\ written[i].when # None =>
                 written[i].when = Some("approve_destructive | default(false)")

\* A plan of two steps was written: the first, destructive, has the guard,
\* and the second has none.
StepsAreConvertedWitness ==
  /\ last.op = "save_learned_playbook" /\ "success" \in DOMAIN last.returned
  /\ Len(last.remediation_data.remediation_steps) = 2
  /\ learned[last.playbook_name].plays[1].tasks[1].name = <<"Restart the service">>
  /\ learned[last.playbook_name].plays[1].tasks[1].when # None
  /\ learned[last.playbook_name].plays[1].tasks[2].when = None

\* ==========================================================================
\* The reasoning service client: consult_llm
\* ==========================================================================
\* ANTHROPIC_API_KEY = os.getenv("ANTHROPIC_API_KEY"): unset, set to the
\* empty string, or set to a key.
ApiKeys == {None, Some(""), Some("sk-ant-key")}

\* ANTHROPIC_MODEL
ANTHROPIC_MODEL == "claude-sonnet-4-5-20250929"

\* The text of a reply, as a sequence of tokens: an opening brace, a closing
\* brace, the members of a JSON object ("m"), and prose ("x").
Tokens == {"{", "}", "m", "x"}
Replies == UNION {[1..n -> Tokens] : n \in 0..MaxReply}

\* What client.messages.create does: it returns a message whose first
\* content block has the text, or it raises (connection, authentication,
\* rate limit, ...) with a message that may be empty.
ServiceOutcomes ==
  {[raised |-> FALSE, text |-> reply] : reply \in Replies}
  \cup {[raised |-> TRUE, text |-> e] : e \in {<<"Connection error.">>, <<>>}}

\* str.find(c) and str.rfind(c): the index from 0 of the first and of the
\* last occurrence, or -1.
find(text, c) ==
  IF \E i \in DOMAIN text : text[i] = c
  THEN (CHOOSE i \in DOMAIN text :
          text[i] = c /\ \A j \in DOMAIN text : text[j] = c => i <= j) - 1
  ELSE 0 - 1
rfind(text, c) ==
  IF \E i \in DOMAIN text : text[i] = c
  THEN (CHOOSE i \in DOMAIN text :
          text[i] = c /\ \A j \in DOMAIN text : text[j] = c => i >= j) - 1
  ELSE 0 - 1

\* text[start:end] for 0 <= start < end <= len(text)
slice(text, start, end) == SubSeq(text, start + 1, end)

\* json.loads of a text of these tokens: an object without members or with
\* members parses, every other text raises json.JSONDecodeError.
JsonObjects == {<<"{", "}">>, <<"{", "m", "}">>}
json_loads(text) ==
  IF text \in JsonObjects THEN [raised |-> FALSE, value |-> text]
  ELSE [raised |-> TRUE, value |-> <<>>]

\* The result when the reply is kept as it is.
raw_response(response_text) ==
  [raw_response |-> response_text, source |-> "llm_generated",
   model |-> ANTHROPIC_MODEL]

\* Faulty variant: a reply without a JSON object is reported as an error.
extracted_or_error(response_text) ==
  LET start == find(response_text, "{")
      end == rfind(response_text, "}") + 1
      parsed == IF start # 0 - 1 /\ end > start
                THEN json_loads(slice(response_text, start, end))
                ELSE [raised |-> TRUE, value |-> <<>>]
  IN IF parsed.raised THEN [error |-> <<"No JSON object in the reply">>]
     ELSE [recommendation |-> parsed.value, source |-> "llm_generated",
           model |-> ANTHROPIC_MODEL]

\* The inner try block of consult_llm and the return after it: the text
\* from the first '{' to the last '}' is parsed; when there is no such text
\* or it is not JSON, the reply is returned as raw_response.
extracted(response_text) ==
  LET start == find(response_text, "{")
      end == rfind(response_text, "}") + 1
      parsed == IF start # 0 - 1 /\ end > start
                THEN json_loads(slice(response_text, start, end))
                ELSE [raised |-> TRUE, value |-> <<>>]
  IN IF parsed.raised THEN raw_response(response_text)
     ELSE [recommendation |-> parsed.value, source |-> "llm_generated",
           model |-> ANTHROPIC_MODEL]

\* Faulty variant: the request is sent although no key is configured.
sends_always(key) == TRUE

\* `if not ANTHROPIC_API_KEY` fails: the key is a non-empty string.
sends(key) == key # None /\ key # Some("")

\* consult_llm: the value of the JSON text it returns.
consult_llm(outcome) ==
  IF ~sends(api_key)
  THEN [error |-> <<"ANTHROPIC_API_KEY not configured">>]
  ELSE IF outcome.raised THEN [error |-> outcome.text]
  ELSE extracted(outcome.text)

\* One call of the consult tool.  A request goes to the service only when
\* the key check passes.
consult_llm_call(outcome) ==
  /\ requests < MaxCalls
  /\ requests' = IF sends(api_key) THEN requests + 1 ELSE requests
  /\ last' = [op |-> "consult_llm", outcome |-> outcome,
              returned |-> consult_llm(outcome)]
  /\ UNCHANGED <<crew, api_key, snapshot, reports, learned, writer,
                 playbook_files, heap, executions, tasks, procs, clock, issued>>

\* The process starts with the key the environment has.
ConsultInit ==
  /\ api_key \in ApiKeys
  /\ crew = [task |-> "idle", log |-> <<>>]
  /\ requests = 0
  /\ snapshot = EmptySnapshot
  /\ reports = <<>>
  /\ playbook_files = BuiltinFiles
  /\ learned = <<>>
  /\ writer = None
  /\ heap = <<>>
  /\ executions = {}
  /\ tasks = <<>>
  /\ procs = <<>>
  /\ clock = 0
  /\ issued = {}
  /\ last = [op |-> "init"]

ConsultNext == \E outcome \in ServiceOutcomes : consult_llm_call(outcome)

ConsultSpec == ConsultInit /\ [][ConsultNext]_vars

\* ==========================================================================
\* The anomaly extractor: analyze_transactions
\* ==========================================================================
\* ANOMALY_THRESHOLD_* of the environment, at their defaults.  The error
\* rate threshold 0.05 and the cut-off 0.1 are kept in percent.
THRESHOLD_LATENCY_MS == 1000
THRESHOLD_ERROR_RATE == 5
THRESHOLD_CPU == 85
THRESHOLD_MEMORY == 90
CriticalLatencyMs == 5000
CriticalPercent == 95
CriticalErrorRate == 10

\* A transaction of the snapshot; a key that is absent is None.
Transaction(id, latency_ms, status, error, anomaly_type) ==
  [id |-> id, latency_ms |-> latency_ms, status |-> status, error |-> error,
   anomaly_type |-> anomaly_type]

\* A server of infrastructure.servers.
Server(name, cpu, memory) == [name |-> name, cpu |-> cpu, memory |-> memory]

\* network.layer7
Layer7(http_2xx, http_4xx, http_5xx) ==
  [http_2xx |-> http_2xx, http_4xx |-> http_4xx, http_5xx |-> http_5xx]

\* The values of the model: latencies and loads on both sides of each
\* threshold and of each cut-off, and keys that are absent.
Latencies == {None, Some(1000), Some(1001), Some(4999), Some(5000)}
Statuses == {None, Some("success"), Some("failed")}
Errors == {None, Some("timeout"), Some("hash_mismatch")}
Tags == {None, Some("fraud")}
Cpus == {None, Some(85), Some(86), Some(96)}
Memories == {None, Some(91), Some(96)}

\* The ids of the transactions and the names of the servers, by position.
TransactionIds == <<"t1", "t2", "t3">>
ServerNames == <<"s1", "s2", "s3">>

\* The first transaction of a snapshot is any transaction, with its id or
\* without; the later ones are of three kinds: unremarkable, slow, and
\* failed with a hash mismatch.
FirstTransactions ==
  {Transaction(id, l, s, e, a) :
     id \in {None, Some(TransactionIds[1])},
     l \in Latencies, s \in Statuses, e \in Errors, a \in Tags}
LaterTransactions ==
  {Transaction(None, Some(1000), Some("success"), None, None),
   Transaction(None, Some(5000), None, None, None),
   Transaction(None, None, Some("failed"), Some("hash_mismatch"), None)}
TransactionLists ==
  {<<>>} \cup
  UNION {{<<first>> \o [i \in 1..n |->
                          [rest[i] EXCEPT !.id = Some(TransactionIds[i + 1])]] :
            first \in FirstTransactions, rest \in [1..n -> LaterTransactions]} :
           n \in 0..(MaxTransactions - 1)}

FirstServers ==
  {Server(name, c, m) :
     name \in {None, Some(ServerNames[1])}, c \in Cpus, m \in Memories}
LaterServers == {Server(None, Some(85), Some(91)), Server(None, Some(96), None)}
ServerLists ==
  {<<>>} \cup
  UNION {{<<first>> \o [i \in 1..n |->
                          [rest[i] EXCEPT !.name = Some(ServerNames[i + 1])]] :
            first \in FirstServers, rest \in [1..n -> LaterServers]} :
           n \in 0..(MaxServers - 1)}

\* No request; a rate of 0, of 5, of a little more than 5, of 10 and of
\* more than 10 percent.
Layer7s ==
  {Layer7(0, 0, 0), Layer7(3, 1, 0), Layer7(18, 1, 1), Layer7(17, 1, 1),
   Layer7(8, 1, 1), Layer7(7, 1, 1)}

\* The snapshots of the model: any transactions alone, and a few
\* transactions with any servers and any network counters.
Snapshots ==
  {[transactions |-> txns, servers |-> <<>>, layer7 |-> Layer7(0, 0, 0)] :
     txns \in TransactionLists}
  \cup
  {[transactions |-> txns, servers |-> servers, layer7 |-> layer7] :
     txns \in {<<>>} \cup {<<[txn EXCEPT !.id = Some(TransactionIds[1])]>> :
                             txn \in LaterTransactions},
     servers \in ServerLists, layer7 \in Layer7s}

\* The records the loop body appends for one transaction.
high_latency(txn) ==
  IF get_or(txn.latency_ms, 0) > THRESHOLD_LATENCY_MS
  THEN <<[type |-> "high_latency",
          severity |-> IF txn.latency_ms[1] < CriticalLatencyMs
                       THEN "warning" ELSE "critical",
          transaction_id |-> txn.id[1],
          latency_ms |-> txn.latency_ms[1]]>>
  ELSE <<>>
failure(txn) ==
  IF txn.status = Some("failed")
  THEN <<[type |-> get_or(txn.error, "unknown_failure"),
          severity |-> IF txn.anomaly_type # None /\ txn.anomaly_type # Some("")
                       THEN "critical" ELSE "high",
          transaction_id |-> txn.id[1],
          anomaly_type |-> txn.anomaly_type]>>
  ELSE <<>>
hash_mismatch(txn) ==
  IF txn.error = Some("hash_mismatch")
  THEN <<[type |-> "hash_mismatch", severity |-> "critical",
          transaction_id |-> txn.id[1]]>>
  ELSE <<>>

\* Faulty variant: a failed transaction is not also reported for its hash.
of_transaction_first_rule(txn) ==
  IF high_latency(txn) # <<>> THEN high_latency(txn)
  ELSE IF failure(txn) # <<>> THEN failure(txn)
  ELSE hash_mismatch(txn)

of_transaction(txn) == high_latency(txn) \o failure(txn) \o hash_mismatch(txn)

\* The records the loop body appends for one server.
high_cpu(server) ==
  IF get_or(server.cpu, 0) > THRESHOLD_CPU
  THEN <<[type |-> "high_cpu",
          severity |-> IF server.cpu[1] > CriticalPercent
                       THEN "critical" ELSE "warning",
          server |-> server.name[1], cpu |-> server.cpu[1]]>>
  ELSE <<>>
high_memory(server) ==
  IF get_or(server.memory, 0) > THRESHOLD_MEMORY
  THEN <<[type |-> "high_memory",
          severity |-> IF server.memory[1] > CriticalPercent
                       THEN "critical" ELSE "warning",
          server |-> server.name[1], memory |-> server.memory[1]]>>
  ELSE <<>>
of_server(server) == high_cpu(server) \o high_memory(server)

\* The record of the network check.  error_rate > 0.05 is n / d > 5 / 100.
of_network(layer7) ==
  LET total_requests == layer7.http_2xx + layer7.http_4xx + layer7.http_5xx
  IN IF total_requests > 0
        /\ layer7.http_5xx * 100 > THRESHOLD_ERROR_RATE * total_requests
     THEN <<[type |-> "high_error_rate",
             severity |-> IF layer7.http_5xx * 100
                               > CriticalErrorRate * total_requests
                          THEN "critical" ELSE "warning",
             error_rate |-> <<"round", layer7.http_5xx, "* 100 /",
                              total_requests>>,
             http_5xx |-> layer7.http_5xx]>>
     ELSE <<>>

\* The records of the loop over the transactions and of the loop over the
\* servers: those of each item, in the order of the list.
RECURSIVE of_transactions(_)
of_transactions(transactions) ==
  IF transactions = <<>> THEN <<>>
  ELSE of_transaction(Head(transactions)) \o of_transactions(Tail(transactions))
RECURSIVE of_servers(_)
of_servers(servers) ==
  IF servers = <<>> THEN <<>>
  ELSE of_server(Head(servers)) \o of_servers(Tail(servers))

\* Faulty variant: the servers are looked at before the transactions.
anomalies_servers_first(data) ==
  of_servers(data.servers) \o of_transactions(data.transactions)
    \o of_network(data.layer7)

\* The list `anomalies` at the end of analyze_transactions.
anomalies_of(data) ==
  of_transactions(data.transactions) \o of_servers(data.servers)
    \o of_network(data.layer7)

\* txn["id"] or server["name"] raises KeyError: a record is to be made of
\* an item that has no such key.
key_error(data) ==
  \/ \E i \in DOMAIN data.transactions :
       LET txn == data.transactions[i]
       IN txn.id = None
          /\ (get_or(txn.latency_ms, 0) > THRESHOLD_LATENCY_MS
                \/ txn.status = Some("failed")
                \/ txn.error = Some("hash_mismatch"))
  \/ \E i \in DOMAIN data.servers :
       LET server == data.servers[i]
       IN server.name = None
          /\ (get_or(server.cpu, 0) > THRESHOLD_CPU
                \/ get_or(server.memory, 0) > THRESHOLD_MEMORY)

\* The value of the JSON text analyze_transactions returns.
report(anomalies, t) ==
  [raised |-> FALSE, total_anomalies |-> Len(anomalies),
   anomalies |-> anomalies, timestamp |-> isoformat(t)]

\* Faulty variant: an anomaly that an earlier call reported is left out.
analyze_transactions_new_only(data, t) ==
  IF key_error(data) THEN [raised |-> TRUE, error |-> "KeyError"]
  ELSE LET reported == UNION {{reports[i].anomalies[k] :
                                 k \in DOMAIN reports[i].anomalies} :
                               i \in DOMAIN reports}
       IN report(SelectSeq(anomalies_of(data), LAMBDA a : a \notin reported), t)

\* analyze_transactions: what it returns for the text of a snapshot when the
\* clock reads t, or the exception.
analyze_transactions(data, t) ==
  IF key_error(data) THEN [raised |-> TRUE, error |-> "KeyError"]
  ELSE report(anomalies_of(data), t)

\* datetime.utcnow() of a report: the reading of the clock or a later one.
report_times == {u \in clock..(clock + 1) : u <= MaxStamp}

\* One call of the analysis tool on the snapshot.
analyze_transactions_call ==
  /\ Len(reports) < MaxCalls
  /\ \E t \in report_times :
       /\ clock' = t
       /\ reports' = Append(reports, analyze_transactions(snapshot, t))
       /\ last' = [op |-> "analyze_transactions",
                   returned |-> analyze_transactions(snapshot, t)]
  /\ UNCHANGED <<crew, api_key, requests, snapshot, learned, writer,
                 playbook_files, heap, executions, tasks, procs, issued>>

\* Any snapshot of the model is the one the telemetry source supplies.
DetectInit ==
  /\ snapshot \in Snapshots
  /\ api_key = None
  /\ crew = [task |-> "idle", log |-> <<>>]
  /\ requests = 0
  /\ reports = <<>>
  /\ playbook_files = BuiltinFiles
  /\ learned = <<>>
  /\ writer = None
  /\ heap = <<>>
  /\ executions = {}
  /\ tasks = <<>>
  /\ procs = <<>>
  /\ clock = 0
  /\ issued = {}
  /\ last = [op |-> "init"]

\* The analysis tool is called, with searches of the catalog in between.
DetectNext ==
  \/ analyze_transactions_call
  \/ \E anomaly_type \in AnomalyTypes : \E order \in GlobOrders :
        search_playbooks_call(anomaly_type, order)

DetectSpec == DetectInit /\ [][DetectNext]_vars

\* ==========================================================================
\* The crew: run_monitoring_crew
\* ==========================================================================
\* The tasks of the crew in the order Process.sequential runs them.
next_task ==
  [idle |-> "detection", detection |-> "matching", matching |-> "consultation",
   consultation |-> "finished"]

\* The tools of the agent of each task.
tools ==
  [detection |-> {"load_transaction_data", "analyze_transactions"},
   matching |-> {"search_playbooks"},
   consultation |-> {"consult_llm", "save_learned_playbook"}]

\* Faulty variant: every agent has every tool.
may_call_any(tool) == crew.task \in DOMAIN tools

\* The agent of the running task may call the tool.
may_call(tool) == crew.task \in DOMAIN tools /\ tool \in tools[crew.task]

\* A tool call as the crew's log has it.
Called(tool, anomaly_type, found) ==
  [tool |-> tool, anomaly_type |-> anomaly_type, found |-> found]

\* What the service does in a run of the crew: a reply that is a plan, a
\* reply in prose, and an error.
CrewOutcomes ==
  {[raised |-> FALSE, text |-> <<"{", "m", "}">>],
   [raised |-> FALSE, text |-> <<"x">>],
   [raised |-> TRUE, text |-> <<"Connection error.">>]}

\* The snapshots load_transaction_data gives the detection agent.
CrewSnapshots ==
  {EmptySnapshot,
   [transactions |-> <<>>, servers |-> <<Server(Some("s1"), Some(96), None)>>,
    layer7 |-> Layer7(0, 0, 0)]}

\* crew.kickoff(): the first task starts.
kickoff ==
  /\ crew.task = "idle"
  /\ crew' = [crew EXCEPT !.task = next_task[crew.task]]
  /\ last' = [op |-> "kickoff"]
  /\ UNCHANGED <<api_key, requests, snapshot, reports, learned, writer,
                 playbook_files, heap, executions, tasks, procs, clock, issued>>

\* The agent of the running task gives its answer and the next task starts,
\* or the crew is done.
task_done ==
  /\ crew.task \in DOMAIN tools
  /\ writer = None
  /\ crew' = [crew EXCEPT !.task = next_task[crew.task]]
  /\ last' = [op |-> "task_done", task |-> crew.task]
  /\ UNCHANGED <<api_key, requests, snapshot, reports, learned, writer,
                 playbook_files, heap, executions, tasks, procs, clock, issued>>

\* The agent calls the analysis tool on the loaded data.
crew_analyze ==
  /\ may_call("analyze_transactions")
  /\ Len(crew.log) < MaxCalls
  /\ \E t \in report_times :
       /\ clock' = t
       /\ reports' = Append(reports, analyze_transactions(snapshot, t))
       /\ last' = [op |-> "analyze_transactions",
                   returned |-> analyze_transactions(snapshot, t)]
  /\ crew' = [crew EXCEPT
       !.log = Append(@, Called("analyze_transactions", "", FALSE))]
  /\ UNCHANGED <<api_key, requests, snapshot, learned, writer, playbook_files,
                 heap, executions, tasks, procs, issued>>

\* The agent calls the search tool with an anomaly type of its choice.
crew_search(anomaly_type, order) ==
  /\ may_call("search_playbooks")
  /\ Len(crew.log) < MaxCalls
  /\ LET returned == search_playbooks(anomaly_type, order)
     IN /\ last' = [op |-> "search_playbooks", anomaly_type |-> anomaly_type,
                    order |-> order, returned |-> returned]
        /\ crew' = [crew EXCEPT
             !.log = Append(@, Called("search_playbooks", anomaly_type,
                                      ~returned.raised /\ returned.playbook_found))]
  /\ UNCHANGED <<api_key, requests, snapshot, reports, learned, writer,
                 playbook_files, heap, executions, tasks, procs, clock, issued>>

\* The agent calls the consult tool about an anomaly of its choice.
crew_consult(anomaly_type, outcome) ==
  /\ may_call("consult_llm")
  /\ Len(crew.log) < MaxCalls
  /\ writer = None
  /\ requests' = IF sends(api_key) THEN requests + 1 ELSE requests
  /\ last' = [op |-> "consult_llm", outcome |-> outcome,
              returned |-> consult_llm(outcome)]
  /\ crew' = [crew EXCEPT
       !.log = Append(@, Called("consult_llm", anomaly_type, FALSE))]
  /\ UNCHANGED <<api_key, snapshot, reports, learned, writer, playbook_files,
                 heap, executions, tasks, procs, clock, issued>>

\* The agent calls the save tool, which opens the file and then writes it.
crew_save_open(playbook_name, remediation_data) ==
  /\ may_call("save_learned_playbook")
  /\ save_learned_playbook_open(playbook_name, remediation_data)
crew_save_write ==
  /\ may_call("save_learned_playbook")
  /\ save_learned_playbook_write

\* The crew is made; the playbooks of the table are deployed and nothing
\* was learned yet.
CrewInit ==
  /\ crew = [task |-> "idle", log |-> <<>>]
  /\ api_key \in ApiKeys
  /\ snapshot \in CrewSnapshots
  /\ requests = 0
  /\ reports = <<>>
  /\ playbook_files = BuiltinFiles
  /\ learned = <<>>
  /\ writer = None
  /\ heap = <<>>
  /\ executions = {}
  /\ tasks = <<>>
  /\ procs = <<>>
  /\ clock = 0
  /\ issued = {}
  /\ last = [op |-> "init"]

CrewNext ==
  \/ kickoff
  \/ task_done
  \/ crew_analyze
  \/ \E anomaly_type \in AnomalyTypes : \E order \in GlobOrders :
        crew_search(anomaly_type, order)
  \/ \E anomaly_type \in AnomalyTypes : \E outcome \in CrewOutcomes :
        crew_consult(anomaly_type, outcome)
  \/ \E remediation_data \in RemediationData :
        crew_save_open("llm_fix", remediation_data)
  \/ crew_save_write

CrewSpec == CrewInit /\ [][CrewNext]_vars

\* ---------------------------------------------------- claims on the crew
\* The calls of a tool in the log, as positions.
CallsOf(tool) == {i \in DOMAIN crew.log : crew.log[i].tool = tool}

\* C23: the reasoning service is consulted for an anomaly only after a search
\* for that anomaly's type returned no candidate: every consult in the log
\* has an earlier search of its type that found nothing, and no search of
\* its type found a playbook.
ConsultFollowsEmptySearch ==
  \A i \in CallsOf("consult_llm") :
    /\ \E j \in CallsOf("search_playbooks") :
         /\ j < i
         /\ crew.log[j].anomaly_type = crew.log[i].anomaly_type
         /\ ~crew.log[j].found
    /\ \A j \in CallsOf("search_playbooks") :
         crew.log[j].anomaly_type = crew.log[i].anomaly_type => ~crew.log[j].found

\* What the sequence of the tasks does give: no search is made after a
\* consult, and the tools of a task are called while the task runs.
ConsultsFollowTheSearches ==
  /\ \A i \in CallsOf("consult_llm") : \A j \in CallsOf("search_playbooks") : j < i
  /\ CallsOf("consult_llm") # {} => crew.task \in {"consultation", "finished"}
ConsultsFollowTheSearchesWitness ==
  /\ CallsOf("consult_llm") # {}
  /\ CallsOf("search_playbooks") # {}

\* The crew consulted the service about an anomaly type for which its search
\* had found a playbook.
ConsultAfterFoundSearch ==
  \E i \in CallsOf("consult_llm") : \E j \in CallsOf("search_playbooks") :
    /\ j < i
    /\ crew.log[j].anomaly_type = crew.log[i].anomaly_type
    /\ crew.log[j].found

\* ----------------------------------------------------- claims on consult
\* The service was asked and it replied.
Replied == last.op = "consult_llm" /\ sends(api_key) /\ ~last.outcome.raised

\* The text has an opening brace somewhere before a closing brace.
HasBracePair(text) ==
  \E i, j \in DOMAIN text : i < j /\ text[i] = "{" /\ text[j] = "}"

\* The part of a text with a brace pair from its first opening brace to its
\* last closing brace.
BracedPart(text) ==
  LET first == CHOOSE i \in DOMAIN text :
                 text[i] = "{" /\ \A k \in 1..(i - 1) : text[k] # "{"
      final == CHOOSE j \in DOMAIN text :
                 text[j] = "}" /\ \A k \in (j + 1)..Len(text) : text[k] # "}"
  IN SubSeq(text, first, final)

\* C24: consult never fails because of what the reply says: when the reply
\* has no brace pair, or the text from its first opening brace to its last
\* closing brace is not JSON, the result is the raw response with source
\* llm_generated and the text of the reply unchanged, and no reply gives an
\* error result.
UnparsedReplyIsKept ==
  Replied =>
    /\ "error" \notin DOMAIN last.returned
    /\ (~HasBracePair(last.outcome.text)
          \/ BracedPart(last.outcome.text) \notin JsonObjects) =>
         /\ DOMAIN last.returned = {"raw_response", "source", "model"}
         /\ last.returned.raw_response = last.outcome.text
         /\ last.returned.source = "llm_generated"
UnparsedReplyIsKeptWitness ==
  /\ Replied
  /\ last.outcome.text = <<"{", "x", "}">>
  /\ last.returned.raw_response = <<"{", "x", "}">>

\* No credential is configured: the variable is unset or empty.
NoCredential == api_key = None \/ api_key = Some("")

\* C25: without a credential consult returns the error result that says so
\* and no request is ever sent; with a credential, an error of the request
\* gives the error result with the message of the error.  In both cases the
\* result is an error and nothing else, and the call leaves the learned
\* store as it was.
ConsultErrorsAreReturned ==
  /\ [](NoCredential => requests = 0)
  /\ [](last.op = "consult_llm" =>
          /\ NoCredential =>
               last.returned = [error |-> <<"ANTHROPIC_API_KEY not configured">>]
          /\ (~NoCredential /\ last.outcome.raised) =>
               last.returned = [error |-> last.outcome.text])
  /\ [][(last'.op = "consult_llm" /\ "error" \in DOMAIN last'.returned) =>
          /\ DOMAIN last'.returned = {"error"}
          /\ learned' = learned
          /\ writer' = writer]_vars
ConsultErrorsAreReturnedWitness ==
  /\ last.op = "consult_llm"
  /\ api_key = None
  /\ last.returned = [error |-> <<"ANTHROPIC_API_KEY not configured">>]
  /\ requests = 0
ConsultErrorsAreReturnedOnFailure ==
  /\ last.op = "consult_llm"
  /\ api_key = Some("sk-ant-key")
  /\ last.outcome = [raised |-> TRUE, text |-> <<"Connection error.">>]
  /\ last.returned = [error |-> <<"Connection error.">>]
  /\ requests > 0

\* ------------------------------------------------------ claims on detect
\* A snapshot is well formed: every transaction has its id and every server
\* its name.
WellFormed(data) ==
  /\ \A i \in DOMAIN data.transactions : data.transactions[i].id # None
  /\ \A i \in DOMAIN data.servers : data.servers[i].name # None

\* The threshold violations of a snapshot, each as <<part, item, rule>>:
\* part 1 is the transactions, 2 the servers, 3 the network; the rules of a
\* transaction are latency, failure and hash mismatch, those of a server cpu
\* and memory.
Violations(data) ==
  {<<1, i, 1>> : i \in {k \in DOMAIN data.transactions :
      data.transactions[k].latency_ms # None
        /\ data.transactions[k].latency_ms[1] > THRESHOLD_LATENCY_MS}}
  \cup {<<1, i, 2>> : i \in {k \in DOMAIN data.transactions :
      data.transactions[k].status = Some("failed")}}
  \cup {<<1, i, 3>> : i \in {k \in DOMAIN data.transactions :
      data.transactions[k].error = Some("hash_mismatch")}}
  \cup {<<2, i, 1>> : i \in {k \in DOMAIN data.servers :
      data.servers[k].cpu # None /\ data.servers[k].cpu[1] > THRESHOLD_CPU}}
  \cup {<<2, i, 2>> : i \in {k \in DOMAIN data.servers :
      data.servers[k].memory # None
        /\ data.servers[k].memory[1] > THRESHOLD_MEMORY}}
  \cup {<<3, 1, 1>> : i \in {k \in {1} :
      LET total == data.layer7.http_2xx + data.layer7.http_4xx
                     + data.layer7.http_5xx
      IN total > 0 /\ data.layer7.http_5xx * 100 > THRESHOLD_ERROR_RATE * total}}

\* The violation an anomaly record of a well-formed snapshot reports.
ViolationOf(data, record) ==
  IF "transaction_id" \in DOMAIN record
  THEN <<1,
         CHOOSE i \in DOMAIN data.transactions :
           data.transactions[i].id = Some(record.transaction_id),
         IF "latency_ms" \in DOMAIN record THEN 1
         ELSE IF "anomaly_type" \in DOMAIN record THEN 2 ELSE 3>>
  ELSE IF "server" \in DOMAIN record
  THEN <<2,
         CHOOSE i \in DOMAIN data.servers :
           data.servers[i].name = Some(record.server),
         IF "cpu" \in DOMAIN record THEN 1 ELSE 2>>
  ELSE <<3, 1, 1>>

\* The order of the input: by part, then item, then rule.
Precedes(v, w) ==
  \/ v[1] < w[1]
  \/ v[1] = w[1] /\ v[2] < w[2]
  \/ v[1] = w[1] /\ v[2] = w[2] /\ v[3] < w[3]

\* C26: for a well-formed snapshot detect does not raise, and its records
\* are one per threshold violation in the order of the input: the records
\* of transaction 1, of transaction 2, ..., of the servers in their order
\* with cpu before memory, and the record of the network.
OneRecordPerViolation ==
  (last.op = "analyze_transactions" /\ WellFormed(snapshot)) =>
    /\ ~last.returned.raised
    /\ LET records == last.returned.anomalies
       IN /\ last.returned.total_anomalies = Len(records)
          /\ Len(records) = Cardinality(Violations(snapshot))
          /\ {ViolationOf(snapshot, records[i]) : i \in DOMAIN records}
               = Violations(snapshot)
          /\ \A i, j \in DOMAIN records :
               i < j => Precedes(ViolationOf(snapshot, records[i]),
                                 ViolationOf(snapshot, records[j]))
OneRecordPerViolationWitness ==
  /\ last.op = "analyze_transactions"
  /\ WellFormed(snapshot)
  /\ Len(snapshot.transactions) = 1
  /\ Len(snapshot.servers) = 2
  /\ Len(last.returned.anomalies) = 5
  /\ [i \in 1..5 |-> last.returned.anomalies[i].type]
       = <<"high_latency", "high_cpu", "high_memory", "high_cpu",
           "high_error_rate">>

RecordsOf(output, id) ==
  SelectSeq(output.anomalies,
            LAMBDA r : "transaction_id" \in DOMAIN r /\ r.transaction_id = id)

\* The number of the records of a sequence that have the type.
CountOfType(records, type) ==
  Cardinality({k \in DOMAIN records : records[k].type = type})

\* C28: the rules fire independently on one transaction: a failed one has a
\* record of the type of its error (unknown_failure without one) that is
\* critical with an anomaly tag and high without; one whose error is
\* hash_mismatch has a critical hash_mismatch record; a failed one with that
\* error has two records of type hash_mismatch, and three records in all
\* when its latency is over the threshold too.
RulesFireIndependently ==
  (last.op = "analyze_transactions" /\ ~last.returned.raised) =>
    \A i \in DOMAIN snapshot.transactions :
      LET txn == snapshot.transactions[i]
          records == RecordsOf(last.returned, txn.id[1])
          failed == txn.status = Some("failed")
          mismatch == txn.error = Some("hash_mismatch")
          slow == txn.latency_ms # None
                    /\ txn.latency_ms[1] > THRESHOLD_LATENCY_MS
      IN txn.id # None =>
           /\ failed =>
                \E k \in DOMAIN records :
                  /\ records[k].type = IF txn.error = None THEN "unknown_failure"
                                       ELSE txn.error[1]
                  /\ records[k].severity = IF txn.anomaly_type # None
                                           THEN "critical" ELSE "high"
           /\ mismatch =>
                \E k \in DOMAIN records :
                  /\ records[k].type = "hash_mismatch"
                  /\ records[k].severity = "critical"
                  /\ "anomaly_type" \notin DOMAIN records[k]
           /\ (failed /\ mismatch) => CountOfType(records, "hash_mismatch") = 2
           /\ (failed /\ mismatch /\ slow) => Len(records) = 3
           /\ (failed /\ ~mismatch /\ ~slow) => Len(records) = 1
RulesFireIndependentlyWitness ==
  /\ last.op = "analyze_transactions"
  /\ ~last.returned.raised
  /\ Len(snapshot.transactions) = 1
  /\ snapshot.transactions[1]
       = Transaction(Some("t1"), Some(5000), Some("failed"),
                     Some("hash_mismatch"), None)
  /\ [k \in DOMAIN last.returned.anomalies |->
        <<last.returned.anomalies[k].type, last.returned.anomalies[k].severity>>]
       = <<<<"high_latency", "critical">>, <<"hash_mismatch", "high">>,
           <<"hash_mismatch", "critical">>>>

\* ------------------------------------------- claims on the execution record
\* C29: an execution that is Pending or Running has no completed_at, and a
\* step that changes the completed_at of an execution is a step that moves
\* its status to Success, Failed or Cancelled.
CompletedAtComesWithTheEnd ==
  /\ [](\A id \in DOMAIN heap :
          heap[id].status \in {PENDING, RUNNING} => heap[id].completed_at = None)
  /\ [][\A id \in DOMAIN heap :
          heap'[id].completed_at # heap[id].completed_at =>
            /\ heap'[id].status \in Terminal
            /\ heap'[id].status # heap[id].status]_vars
CompletedAtComesWithTheEndWitness ==
  \E a \in DOMAIN heap : \E b \in DOMAIN heap :
    /\ heap[a].status = RUNNING /\ heap[a].completed_at = None
    /\ heap[b].status = SUCCESS /\ heap[b].completed_at # None
    /\ last.op = "process_exit" /\ last.id = b

\* C30: the result fields agree with the status: Success has no error,
\* Failed has an error that is not empty, Pending and Running have neither
\* output nor error.
ResultAgreesWithStatus ==
  \A id \in DOMAIN heap :
    /\ heap[id].status = SUCCESS => heap[id].error = None
    /\ heap[id].status = FAILED =>
         heap[id].error # None /\ heap[id].error # Some("")
    /\ heap[id].status \in {PENDING, RUNNING} =>
         heap[id].output = None /\ heap[id].error = None

\* What does hold of the result fields: Failed has an error recorded, which
\* is the empty text when the exception has no message.
ResultAgreesWithStatusAsCoded ==
  \A id \in DOMAIN heap :
    /\ heap[id].status = SUCCESS => heap[id].error = None
    /\ heap[id].status = FAILED => heap[id].error # None
    /\ heap[id].status \in {PENDING, RUNNING} =>
         heap[id].output = None /\ heap[id].error = None


====
